---- MODULE Spec2Model ----
(***************************************************************************)
(* parse_toon of tools/fetchers/unified_fetcher_v3.py: the indentation-    *)
(* sensitive, line-oriented TOON parser.  A text is a sequence of physical *)
(* lines; a line is its leading-whitespace width w and its stripped        *)
(* content c, a sequence of one-character strings.  Python dicts and lists *)
(* are objects with identity: the parser's stack and array context hold    *)
(* references, so the model keeps a heap of dicts and a heap of lists and  *)
(* refers to them by index.                                                *)
(***************************************************************************)
EXTENDS Integers, Sequences, FiniteSets, TLC

VARIABLES
    text,                   \* the argument: the physical lines of the input
    csv_rejects_nul,        \* the interpreter build: does csv.reader raise on "\0"
    lines,                  \* text.strip().split('\n')
    i,                      \* position of the for loop in lines
    pc,                     \* "loop" | "done" | "raised"
    dicts,                  \* heap of dict objects; dicts[1] is data
    lists,                  \* heap of list objects
    stack,                  \* references to dicts
    indent_stack,
    current_array_list,     \* reference to a list, None is 0
    current_array_fields,
    current_array_indent,
    result,                 \* the returned value
    hist,                   \* what each iteration did (history, not read by the parser)
    call2,                  \* a second invocation running at the same time, if any
    ai                      \* an invocation of call_unified_ai, if any

vars == <<text, csv_rejects_nul, lines, i, pc, dicts, lists, stack, indent_stack,
          current_array_list, current_array_fields, current_array_indent, result, hist,
          call2, ai>>

\* ------------------------------------------------------------------ bounds
MaxLines == 3       \* physical lines of an input text
MaxIndent == 1      \* largest leading-whitespace width of an input line
MaxTokens == 5      \* pieces a line content is put together from, for the patterns
MaxModels == 3      \* entries of FREE_OPENROUTER_MODELS that are modelled

\* -------------------------------------------------------------- characters
Quote == "\""
Tick == "TICK"      \* the grave accent character of a code fence
Nul == "NUL"        \* the character "\0": csv.Error("line contains NUL") before CPython 3.11
DigitChars == {"0", "1", "2", "3", "4", "5", "6", "7", "8", "9"}
WordChars == {"a", "b", "c", "d", "e", "h", "k", "m", "n", "o", "r", "s", "t", "v", "x", "_"}
                 \cup DigitChars
SpaceChars == {" "}
Chars == WordChars \cup SpaceChars \cup {"[", "]", "{", "}", ":", ",", "#", "'", Tick, Quote, Nul}

\* ----------------------------------------------------------------- helpers
Last(q) == q[Len(q)]
Front(q) == SubSeq(q, 1, Len(q) - 1)

\* first position >= p of c whose character is outside class (Len(c)+1 if none):
\* where a greedy regex repetition over a character class stops
RECURSIVE Scan(_, _, _)
Scan(c, p, class) ==
    IF p <= Len(c) /\ c[p] \in class THEN Scan(c, p + 1, class) ELSE p

At(c, p, ch) == p >= 1 /\ p <= Len(c) /\ c[p] = ch

\* str.strip() on a run of characters
RECURSIVE LStrip(_)
LStrip(c) == IF c # <<>> /\ Head(c) \in SpaceChars THEN LStrip(Tail(c)) ELSE c
RECURSIVE RStrip(_)
RStrip(c) == IF c # <<>> /\ Last(c) \in SpaceChars THEN RStrip(Front(c)) ELSE c
Strip(c) == RStrip(LStrip(c))

\* str.split(sep): the pieces between the separators, empty pieces kept
RECURSIVE SplitFrom(_, _, _, _)
SplitFrom(c, p, sep, piece) ==
    IF p > Len(c) THEN <<piece>>
    ELSE IF c[p] = sep THEN <<piece>> \o SplitFrom(c, p + 1, sep, <<>>)
    ELSE SplitFrom(c, p + 1, sep, Append(piece, c[p]))
Split(c, sep) == SplitFrom(c, 1, sep, <<>>)

\* ------------------------------------------------------------- csv.reader
\* next(csv.reader(StringIO(c), skipinitialspace=True)) for a one-line c:
\* the default dialect (delimiter ',', quotechar '"', doublequote, not strict).
Fault == <<"csv.Error">>

RECURSIVE CsvFrom(_, _, _, _, _)
CsvFrom(c, p, state, field, fields) ==
    IF p > Len(c)
    THEN IF state = "START_RECORD" THEN fields ELSE Append(fields, field)
    ELSE LET ch == c[p] IN
         CASE state \in {"START_RECORD", "START_FIELD"} ->
                IF ch = Quote THEN CsvFrom(c, p + 1, "IN_QUOTED_FIELD", <<>>, fields)
                ELSE IF ch = " " THEN CsvFrom(c, p + 1, "START_FIELD", <<>>, fields)
                ELSE IF ch = "," THEN CsvFrom(c, p + 1, "START_FIELD", <<>>, Append(fields, <<>>))
                ELSE CsvFrom(c, p + 1, "IN_FIELD", <<ch>>, fields)
           [] state = "IN_FIELD" ->
                IF ch = "," THEN CsvFrom(c, p + 1, "START_FIELD", <<>>, Append(fields, field))
                ELSE CsvFrom(c, p + 1, "IN_FIELD", Append(field, ch), fields)
           [] state = "IN_QUOTED_FIELD" ->
                IF ch = Quote THEN CsvFrom(c, p + 1, "QUOTE_IN_QUOTED_FIELD", field, fields)
                ELSE CsvFrom(c, p + 1, "IN_QUOTED_FIELD", Append(field, ch), fields)
           [] OTHER -> \* QUOTE_IN_QUOTED_FIELD
                IF ch = Quote THEN CsvFrom(c, p + 1, "IN_QUOTED_FIELD", Append(field, ch), fields)
                ELSE IF ch = "," THEN CsvFrom(c, p + 1, "START_FIELD", <<>>, Append(fields, field))
                ELSE CsvFrom(c, p + 1, "IN_FIELD", Append(field, ch), fields)

CsvRow(c) ==
    IF csv_rejects_nul /\ \E p \in 1..Len(c) : c[p] = Nul THEN Fault
    ELSE CsvFrom(c, 1, "START_RECORD", <<>>, <<>>)

\* ------------------------------------------------------- the three regexes
\* r'^(\w+)\s*\[\d+\]\s*\{([^}]+)\}\s*:\s*$'
ArrObjMatch(content) ==
    LET p1 == Scan(content, 1, WordChars)
        p2 == Scan(content, p1, SpaceChars)
        p3 == Scan(content, p2 + 1, DigitChars)
        p4 == Scan(content, p3 + 1, SpaceChars)
        p5 == Scan(content, p4 + 1, Chars \ {"}"})
        p6 == Scan(content, p5 + 1, SpaceChars)
        p7 == Scan(content, p6 + 1, SpaceChars)
        ok == /\ p1 > 1
              /\ At(content, p2, "[") /\ p3 > p2 + 1 /\ At(content, p3, "]")
              /\ At(content, p4, "{") /\ p5 > p4 + 1 /\ At(content, p5, "}")
              /\ At(content, p6, ":") /\ p7 = Len(content) + 1
    IN  [ok |-> ok,
         key |-> IF ok THEN SubSeq(content, 1, p1 - 1) ELSE <<>>,
         rest |-> IF ok THEN SubSeq(content, p4 + 1, p5 - 1) ELSE <<>>]

\* r'^(\w+)\s*\[\d+\]\s*:\s*(.+)$'
ArrSimpleMatch(content) ==
    LET p1 == Scan(content, 1, WordChars)
        p2 == Scan(content, p1, SpaceChars)
        p3 == Scan(content, p2 + 1, DigitChars)
        p4 == Scan(content, p3 + 1, SpaceChars)
        p5 == Scan(content, p4 + 1, SpaceChars)
        ok == /\ p1 > 1
              /\ At(content, p2, "[") /\ p3 > p2 + 1 /\ At(content, p3, "]")
              /\ At(content, p4, ":") /\ p5 <= Len(content)
    IN  [ok |-> ok,
         key |-> IF ok THEN SubSeq(content, 1, p1 - 1) ELSE <<>>,
         rest |-> IF ok THEN SubSeq(content, p5, Len(content)) ELSE <<>>]

\* r'^(\w+)\s*:\s*(.*)$'
KvMatchBracketKey(content) ==
    LET p1 == Scan(content, 1, WordChars \cup {"[", "]"})
        p2 == Scan(content, p1, SpaceChars)
        p3 == Scan(content, p2 + 1, SpaceChars)
        ok == p1 > 1 /\ At(content, p2, ":")
    IN  [ok |-> ok,
         key |-> IF ok THEN SubSeq(content, 1, p1 - 1) ELSE <<>>,
         rest |-> IF ok THEN SubSeq(content, p3, Len(content)) ELSE <<>>]
KvMatch(content) ==
    LET p1 == Scan(content, 1, WordChars)
        p2 == Scan(content, p1, SpaceChars)
        p3 == Scan(content, p2 + 1, SpaceChars)
        ok == p1 > 1 /\ At(content, p2, ":")
    IN  [ok |-> ok,
         key |-> IF ok THEN SubSeq(content, 1, p1 - 1) ELSE <<>>,
         rest |-> IF ok THEN SubSeq(content, p3, Len(content)) ELSE <<>>]

\* ------------------------------------------------------------ heap values
None == 0
StrValInferred(chars) ==
    [t |-> IF chars # <<>> /\ \A p \in 1..Len(chars) : chars[p] \in {"1", "2", "7"}
           THEN "int" ELSE "str",
     s |-> chars, id |-> 0]
StrVal(chars) == [t |-> "str", s |-> chars, id |-> 0]
DictRef(id) == [t |-> "dict", s |-> <<>>, id |-> id]
ListRef(id) == [t |-> "list", s |-> <<>>, id |-> id]
\* list elements: a string, or the dict built from one row
StrElem(chars) == [t |-> "str", s |-> chars, e |-> <<>>]
ObjElem(entries) == [t |-> "obj", s |-> <<>>, e |-> entries]

HasKey(d, key) == \E n \in 1..Len(d) : d[n].k = key
\* d[key] = v on an insertion-ordered dict
PutMovesToEnd(d, key, v) ==
    Append(SelectSeq(d, LAMBDA en : en.k # key), [k |-> key, v |-> v])
PutKeepsFirst(d, key, v) == IF HasKey(d, key) THEN d ELSE Append(d, [k |-> key, v |-> v])
PutFresh(d, key, v) == <<[k |-> key, v |-> v]>>
Put(d, key, v) ==
    IF HasKey(d, key)
    THEN [n \in 1..Len(d) |-> IF d[n].k = key THEN [k |-> key, v |-> v] ELSE d[n]]
    ELSE Append(d, [k |-> key, v |-> v])

\* dict(zip(fields, row)): pairs up to the shorter length, a repeated field
\* name keeps its first position and takes the later value
ZipDictSwapped(fields, row) ==
    [n \in 1..(IF Len(fields) <= Len(row) THEN Len(fields) ELSE Len(row)) |->
        [k |-> row[n], v |-> [t |-> "str", s |-> fields[n], id |-> 0]]]
RECURSIVE ZipDict(_, _)
ZipDict(fields, row) ==
    IF fields = <<>> \/ row = <<>> THEN <<>>
    ELSE LET n == IF Len(fields) <= Len(row) THEN Len(fields) ELSE Len(row)
         IN  Put(ZipDict(SubSeq(fields, 1, n - 1), SubSeq(row, 1, n - 1)),
                 fields[n], StrVal(row[n]))

\* [f.strip() for f in group(2).split(',')]
FieldNames(rest) == LET parts == Split(rest, ",") IN [n \in 1..Len(parts) |-> Strip(parts[n])]

\* value with one layer of quotes removed (lines 991-994)
UnquoteDoubleOnly(value) ==
    IF Head(value) = Quote /\ Last(value) = Quote THEN SubSeq(value, 2, Len(value) - 1)
    ELSE value
Unquote(value) ==
    IF Head(value) = Quote /\ Last(value) = Quote THEN SubSeq(value, 2, Len(value) - 1)
    ELSE IF Head(value) = "'" /\ Last(value) = "'" THEN SubSeq(value, 2, Len(value) - 1)
    ELSE value

\* ------------------------------------------------ the parser's local state
\* the locals of one call as a record, so that the loop body is an operator
Locals(ds, ls, st, ist, cal, caf, cai) ==
    [dicts |-> ds, lists |-> ls, stack |-> st, indent_stack |-> ist,
     current_array_list |-> cal, current_array_fields |-> caf, current_array_indent |-> cai]

\* lines 905-912
InitLocals == Locals(<< <<>> >>, <<>>, <<1>>, <<-1>>, None, <<>>, -1)

\* line 917
IsSkipped(line) == line.c = <<>> \/ Head(line.c) = "#"

\* lines 925-932: the dedent loop
RECURSIVE DedentBelowOnly(_, _)
DedentBelowOnly(s, indent) ==
    IF indent < Last(s.indent_stack) /\ Len(s.indent_stack) > 1
    THEN LET popped == [s EXCEPT !.indent_stack = Front(s.indent_stack),
                                 !.stack = Front(s.stack)]
             done == s.current_array_list # None /\ indent <= s.current_array_indent
         IN  DedentBelowOnly(IF done
                             THEN [popped EXCEPT !.current_array_list = None,
                                                 !.current_array_fields = <<>>,
                                                 !.current_array_indent = -1]
                             ELSE popped,
                             indent)
    ELSE s
RECURSIVE DedentKeepsContext(_, _)
DedentKeepsContext(s, indent) ==
    IF indent <= Last(s.indent_stack) /\ Len(s.indent_stack) > 1
    THEN DedentKeepsContext([s EXCEPT !.indent_stack = Front(s.indent_stack),
                                      !.stack = Front(s.stack)],
                            indent)
    ELSE s
RECURSIVE Dedent(_, _)
Dedent(s, indent) ==
    IF indent <= Last(s.indent_stack) /\ Len(s.indent_stack) > 1
    THEN LET popped == [s EXCEPT !.indent_stack = Front(s.indent_stack),
                                 !.stack = Front(s.stack)]
             done == s.current_array_list # None /\ indent <= s.current_array_indent
         IN  Dedent(IF done
                    THEN [popped EXCEPT !.current_array_list = None,
                                        !.current_array_fields = <<>>,
                                        !.current_array_indent = -1]
                    ELSE popped,
                    indent)
    ELSE s

\* line 935: is the line a data row of the open array
InArray(s, indent) == s.current_array_list # None /\ indent > s.current_array_indent

\* line 941
RowAcceptedPartial(row, fields) == row # Fault /\ Len(row) <= Len(fields)
RowAccepted(row, fields) == row # Fault /\ Len(row) = Len(fields)

\* lines 937-946: the row branch; a csv.Error is caught and passed
RowStep(s, content) ==
    LET row == CsvRow(content)
    IN  IF RowAccepted(row, s.current_array_fields)
        THEN [s EXCEPT !.lists[s.current_array_list] =
                  Append(@, ObjElem(ZipDict(s.current_array_fields, row)))]
        ELSE s

\* lines 953-964
HeaderStepKeepsOpen(s, indent, m) ==
    LET new_list == Len(s.lists) + 1
        current_dict == Last(s.stack)
        open == s.current_array_list # None
    IN  [s EXCEPT !.lists = Append(@, <<>>),
                  !.dicts[current_dict] = Put(@, m.key, ListRef(new_list)),
                  !.current_array_list = IF open THEN @ ELSE new_list,
                  !.current_array_fields = IF open THEN @ ELSE FieldNames(m.rest),
                  !.current_array_indent = IF open THEN @ ELSE indent]
HeaderStep(s, indent, m) ==
    LET new_list == Len(s.lists) + 1
        current_dict == Last(s.stack)
    IN  [s EXCEPT !.lists = Append(@, <<>>),
                  !.dicts[current_dict] = Put(@, m.key, ListRef(new_list)),
                  !.current_array_list = new_list,
                  !.current_array_fields = FieldNames(m.rest),
                  !.current_array_indent = indent]

\* lines 968-977
SimpleStepPlainSplit(s, m) ==
    LET values == Split(m.rest, ",")
        new_list == Len(s.lists) + 1
        current_dict == Last(s.stack)
    IN  [s EXCEPT !.lists = Append(@, [n \in 1..Len(values) |-> StrElem(values[n])]),
                  !.dicts[current_dict] = Put(@, m.key, ListRef(new_list))]
SimpleStep(s, m) ==
    LET values == CsvRow(m.rest)
        new_list == Len(s.lists) + 1
        current_dict == Last(s.stack)
    IN  [s EXCEPT !.lists = Append(@, IF values = Fault THEN <<>>
                                      ELSE [n \in 1..Len(values) |-> StrElem(values[n])]),
                  !.dicts[current_dict] = Put(@, m.key, ListRef(new_list))]

\* lines 980-996
KvStepStoresCopy(s, indent, m) ==
    LET current_dict == Last(s.stack)
        stored == Len(s.dicts) + 1
        pushed == Len(s.dicts) + 2
    IN  IF m.rest = <<>>
        THEN [s EXCEPT !.dicts = Append(Append([@ EXCEPT ![current_dict] =
                                                    Put(@, m.key, DictRef(stored))],
                                               <<>>), <<>>),
                       !.stack = Append(@, pushed),
                       !.indent_stack = Append(@, indent)]
        ELSE [s EXCEPT !.dicts[current_dict] = Put(@, m.key, StrVal(Unquote(m.rest)))]
KvStep(s, indent, m) ==
    LET current_dict == Last(s.stack)
        new_dict == Len(s.dicts) + 1
    IN  IF m.rest = <<>>
        THEN [s EXCEPT !.dicts = Append([@ EXCEPT ![current_dict] = Put(@, m.key, DictRef(new_dict))],
                                        <<>>),
                       !.stack = Append(@, new_dict),
                       !.indent_stack = Append(@, indent)]
        ELSE [s EXCEPT !.dicts[current_dict] = Put(@, m.key, StrVal(Unquote(m.rest)))]

\* which branch of the loop body a line takes in state s
BranchClassifyFirst(s, line) ==
    IF IsSkipped(line) THEN "skip"
    ELSE IF ArrObjMatch(line.c).ok THEN "header"
    ELSE IF ArrSimpleMatch(line.c).ok THEN "simple"
    ELSE IF KvMatch(line.c).ok THEN (IF KvMatch(line.c).rest = <<>> THEN "object" ELSE "scalar")
    ELSE IF InArray(Dedent(s, line.w), line.w) THEN "row"
    ELSE "nomatch"
Branch(s, line) ==
    IF IsSkipped(line) THEN "skip"
    ELSE IF InArray(Dedent(s, line.w), line.w) THEN "row"
    ELSE IF ArrObjMatch(line.c).ok THEN "header"
    ELSE IF ArrSimpleMatch(line.c).ok THEN "simple"
    ELSE IF KvMatch(line.c).ok THEN (IF KvMatch(line.c).rest = <<>> THEN "object" ELSE "scalar")
    ELSE "nomatch"

\* lines 916-996: one iteration of the for loop
BodyKeepsUnmatched(s, line) ==
    LET kind == Branch(s, line)
        d == Dedent(s, line.w)
    IN  CASE kind = "skip" -> s
          [] kind = "row" -> RowStep(d, line.c)
          [] kind = "header" -> HeaderStep(d, line.w, ArrObjMatch(line.c))
          [] kind = "simple" -> SimpleStep(d, ArrSimpleMatch(line.c))
          [] kind \in {"object", "scalar"} -> KvStep(d, line.w, KvMatch(line.c))
          [] OTHER -> [d EXCEPT !.dicts[Last(d.stack)] = Put(@, line.c, StrVal(<<>>))]
BodySkipsUnmatched(s, line) ==
    LET kind == Branch(s, line)
        d == Dedent(s, line.w)
    IN  CASE kind = "skip" -> s
          [] kind = "row" -> RowStep(d, line.c)
          [] kind = "header" -> HeaderStep(d, line.w, ArrObjMatch(line.c))
          [] kind = "simple" -> SimpleStep(d, ArrSimpleMatch(line.c))
          [] kind \in {"object", "scalar"} -> KvStep(d, line.w, KvMatch(line.c))
          [] OTHER -> s
BodyDedentsSkipped(s, line) ==
    LET kind == Branch(s, line)
        d == Dedent(s, line.w)
    IN  CASE kind = "skip" -> d
          [] kind = "row" -> RowStep(d, line.c)
          [] kind = "header" -> HeaderStep(d, line.w, ArrObjMatch(line.c))
          [] kind = "simple" -> SimpleStep(d, ArrSimpleMatch(line.c))
          [] kind \in {"object", "scalar"} -> KvStep(d, line.w, KvMatch(line.c))
          [] OTHER -> d
Body(s, line) ==
    LET kind == Branch(s, line)
        d == Dedent(s, line.w)
    IN  CASE kind = "skip" -> s
          [] kind = "row" -> RowStep(d, line.c)
          [] kind = "header" -> HeaderStep(d, line.w, ArrObjMatch(line.c))
          [] kind = "simple" -> SimpleStep(d, ArrSimpleMatch(line.c))
          [] kind \in {"object", "scalar"} -> KvStep(d, line.w, KvMatch(line.c))
          [] OTHER -> d

\* line 998: the returned dict as a value (references followed)
RECURSIVE ResolveDict(_, _, _)
ResolveDict(ds, ls, id) ==
    [n \in 1..Len(ds[id]) |->
        [k |-> ds[id][n].k,
         v |-> LET v == ds[id][n].v
               IN  CASE v.t = "str" -> [t |-> "str", s |-> v.s, sub |-> <<>>]
                     [] v.t = "dict" -> [t |-> "dict", s |-> <<>>, sub |-> ResolveDict(ds, ls, v.id)]
                     [] OTHER -> [t |-> "list", s |-> <<>>, sub |-> ls[v.id]]]]

\* lines 916-998: the loop over the lines from the n-th on, and the whole call
RECURSIVE Run(_, _, _)
Run(s, ls, n) == IF n > Len(ls) THEN s ELSE Run(Body(s, ls[n]), ls, n + 1)

\* -------------------------------------------------------------- the input
IsBlank(line) == line.c = <<>>

\* line 914: text.strip().split('\n').  strip() removes the leading blank lines,
\* the leading whitespace of the first non-blank line and the trailing blank lines
StripSplit(t) ==
    LET nb == {n \in 1..Len(t) : ~IsBlank(t[n])}
    IN  IF nb = {} THEN << [w |-> 0, c |-> <<>>] >>
        ELSE LET first == CHOOSE n \in nb : \A m \in nb : n <= m
                 last == CHOOSE n \in nb : \A m \in nb : m <= n
             IN  [n \in 1..(last - first + 1) |->
                    IF n = 1 THEN [w |-> 0, c |-> t[first].c] ELSE t[first + n - 1]]

\* lines 899-998
ParseToon(t) ==
    LET s == Run(InitLocals, StripSplit(t), 1) IN ResolveDict(s.dicts, s.lists, 1)

\* line contents the inputs are drawn from
cObject == <<"o", ":">>
cScalar == <<"k", ":", " ", "v">>
cHeader == <<"t", "[", "1", "]", "{", "a", ",", "b", "}", ":">>
cHeaderDup == <<"t", "[", "1", "]", "{", "a", ",", "a", "}", ":">>
cRow == <<"1", ",", "2">>
cRowShort == <<"1">>
cRowNul == <<Nul, ",", "2">>
cComment == <<"#", ",", "2">>
cSimple == <<"s", "[", "2", "]", ":", " ", "a", ",", " ", Quote, "b", ",", " ", "x", Quote>>
cScalarEmpty == <<"k", ":", " ", Quote, Quote>>
cScalarQuote == <<"k", ":", " ", Quote>>
cScalarQuoted == <<"k", ":", " ", Quote, "v", Quote>>
cScalarApos == <<"k", ":", " ", "'", "v", Quote>>
cSimpleNul == <<"x", "[", "1", "]", ":", " ", Nul>>
cBlank == <<>>

LineSet(contents) ==
    {[w |-> w, c |-> c] : w \in 0..MaxIndent, c \in contents \ {cBlank}}
        \cup {[w |-> 0, c |-> c] : c \in contents \cap {cBlank}}

Texts(contents) == UNION {[1..n -> LineSet(contents)] : n \in 1..MaxLines}

HasNul(t) == \E n \in 1..Len(t) : \E p \in 1..Len(t[n].c) : t[n].c[p] = Nul

\* ------------------------------------------------------------ the machine
Cur == Locals(dicts, lists, stack, indent_stack,
              current_array_list, current_array_fields, current_array_indent)

\* what one iteration did, for the properties
Event(n, s, line) ==
    LET kind == Branch(s, line)
        d == Dedent(s, line.w)
        inserts == kind \in {"header", "simple", "object", "scalar"}
    IN  [n |-> n,
         kind |-> kind,
         w |-> line.w,
         stk |-> IF kind = "skip" THEN s.stack ELSE d.stack,
         into |-> IF inserts THEN Last(d.stack) ELSE 0,
         made |-> CASE kind = "object" -> Len(s.dicts) + 1
                    [] kind \in {"header", "simple"} -> Len(s.lists) + 1
                    [] OTHER -> 0,
         list |-> IF kind = "row" THEN d.current_array_list ELSE 0,
         appended |-> kind = "row" /\ RowAccepted(CsvRow(line.c), d.current_array_fields)]

\* lines 916-996: no statement of the loop body lets an exception escape (the
\* csv calls sit in try/except, an unmatched line falls off the end of the body)
OutcomeStrict(s, line) == IF Branch(s, line) = "nomatch" THEN "raised" ELSE "loop"
Outcome(s, line) == "loop"

\* lines 905-912 are assignments to local names: each invocation works on the
\* locals of its own frame, whatever another invocation holds
FrameLocalsShared(own, others) == others
FrameLocals(own, others) == own

\* no second invocation
NoCall == [text |-> <<>>, lines |-> <<>>, i |-> 1, pc |-> "none", locals |-> InitLocals,
           result |-> <<>>, mixed |-> FALSE]
\* a second invocation at its entry, called with the text t
StartCall(t) == [text |-> t, lines |-> StripSplit(t), i |-> 1, pc |-> "loop",
                 locals |-> InitLocals, result |-> <<>>, mixed |-> FALSE]

\* no invocation of call_unified_ai
ReturnedNone == [some |-> FALSE, doc |-> <<>>]
NoAi == [pc |-> "none",
         env |-> [disable_ai |-> FALSE, requests_available |-> TRUE, openrouter_key |-> TRUE],
         model_index |-> 0, calls |-> <<>>, got |-> <<>>, returned |-> ReturnedNone]

InitOn(texts) ==
    /\ text \in texts
    /\ csv_rejects_nul \in (IF HasNul(text) THEN BOOLEAN ELSE {TRUE})
    /\ lines = StripSplit(text)
    /\ i = 1
    /\ pc = "loop"
    /\ dicts = InitLocals.dicts
    /\ lists = InitLocals.lists
    /\ stack = InitLocals.stack
    /\ indent_stack = InitLocals.indent_stack
    /\ current_array_list = InitLocals.current_array_list
    /\ current_array_fields = InitLocals.current_array_fields
    /\ current_array_indent = InitLocals.current_array_indent
    /\ result = <<>>
    /\ hist = <<>>

InitCall(contents) == InitOn(Texts(contents))
InitWith(contents) == InitCall(contents) /\ call2 = NoCall /\ ai = NoAi

Init == InitWith({cObject, cScalar, cHeader, cRow, cComment})

Iterate(kinds) ==
    /\ pc = "loop"
    /\ i <= Len(lines)
    /\ Branch(Cur, lines[i]) \in kinds
    /\ LET s == Body(Cur, lines[i])
       IN  /\ dicts' = s.dicts
           /\ lists' = s.lists
           /\ stack' = s.stack
           /\ indent_stack' = s.indent_stack
           /\ current_array_list' = s.current_array_list
           /\ current_array_fields' = s.current_array_fields
           /\ current_array_indent' = s.current_array_indent
    /\ pc' = Outcome(Cur, lines[i])
    /\ i' = i + 1
    /\ hist' = Append(hist, Event(i, Cur, lines[i]))
    /\ UNCHANGED <<text, csv_rejects_nul, lines, result, call2, ai>>

\* lines 917-918
SkipLine == Iterate({"skip"})
\* lines 921-946
RowLine == Iterate({"row"})
\* lines 921-932 and 948-996
ClassifyLine == Iterate({"header", "simple", "object", "scalar", "nomatch"})
\* line 998
Return ==
    /\ pc = "loop"
    /\ i > Len(lines)
    /\ pc' = "done"
    /\ result' = ResolveDict(dicts, lists, 1)
    /\ UNCHANGED <<text, csv_rejects_nul, lines, i, dicts, lists, stack, indent_stack,
                   current_array_list, current_array_fields, current_array_indent, hist, call2, ai>>

Next == SkipLine \/ RowLine \/ ClassifyLine \/ Return

Spec == Init /\ [][Next]_vars

\* inputs of array blocks: headers and rows that decode to the declared count,
\* to another count, or not at all
InitRows == InitWith({cHeader, cRow, cRowShort, cRowNul, cBlank})
SpecRows == InitRows /\ [][Next]_vars

\* inputs of array blocks whose header repeats a field name
InitFields == InitWith({cHeader, cHeaderDup, cRow, cRowShort, cBlank})
SpecFields == InitFields /\ [][Next]_vars

\* inputs with blank lines, comments and lines of no pattern among the others
InitPlain == InitWith({cBlank, cComment, cRow, cScalar, cHeader})
SpecPlain == InitPlain /\ [][Next]_vars

\* inputs with simple arrays: a quoted value holding a comma, and a remainder
\* that csv.reader rejects on the builds that reject "\0"
InitArrays == InitWith({cSimple, cSimpleNul, cObject, cHeader, cBlank})
SpecArrays == InitArrays /\ [][Next]_vars

\* inputs that build every kind of value: strings, nested dicts, lists of
\* strings and lists of row dicts
InitValues == InitWith({cObject, cScalarEmpty, cHeader, cRow, cSimple, cBlank})
SpecValues == InitValues /\ [][Next]_vars

\* two invocations at once.  One iteration of the second invocation's loop,
\* taken between any two steps of the first; mixed records that it ran while
\* the first was in the middle of its loop
Call2Iterate ==
    /\ call2.pc = "loop"
    /\ call2.i <= Len(call2.lines)
    /\ call2' = [call2 EXCEPT
                    !.locals = Body(FrameLocals(call2.locals, Cur), call2.lines[call2.i]),
                    !.i = @ + 1,
                    !.mixed = @ \/ (pc = "loop" /\ i > 1)]
    /\ UNCHANGED <<text, csv_rejects_nul, lines, i, pc, dicts, lists, stack, indent_stack,
                   current_array_list, current_array_fields, current_array_indent,
                   result, hist, ai>>
Call2Return ==
    /\ call2.pc = "loop"
    /\ call2.i > Len(call2.lines)
    /\ call2' = [call2 EXCEPT
                    !.pc = "done",
                    !.result = ResolveDict(call2.locals.dicts, call2.locals.lists, 1)]
    /\ UNCHANGED <<text, csv_rejects_nul, lines, i, pc, dicts, lists, stack, indent_stack,
                   current_array_list, current_array_fields, current_array_indent,
                   result, hist, ai>>

Reverse(q) == [n \in 1..Len(q) |-> q[Len(q) + 1 - n]]
\* the second invocation parses the same text, or its lines in reverse order
InitTwoCalls ==
    /\ InitCall({cHeader, cRow, cBlank})
    /\ call2 \in {StartCall(t) : t \in {text, Reverse(text)}}
    /\ ai = NoAi
NextTwoCalls == SkipLine \/ RowLine \/ ClassifyLine \/ Return \/ Call2Iterate \/ Call2Return
SpecTwoCalls == InitTwoCalls /\ [][NextTwoCalls]_vars

\* inputs that open and close frames, with and without an array context
InitFrames == InitWith({cObject, cScalar, cHeader, cComment})
SpecFrames == InitFrames /\ [][Next]_vars

\* one-line inputs for the three patterns: every content put together from at
\* most MaxTokens pieces of pattern syntax, stripped as line 922 strips it
PatternTokens == {<<"a">>, <<" ">>, <<"[", "1", "]">>, <<"{", "a", "}">>, <<":">>, <<"[">>}
RECURSIVE Concats(_)
Concats(n) ==
    IF n = 0 THEN {<<>>}
    ELSE LET shorter == Concats(n - 1)
         IN  shorter \cup {c \o tok : c \in shorter, tok \in PatternTokens}
InitPatterns ==
    /\ InitOn({<< [w |-> 0, c |-> Strip(c)] >> : c \in Concats(MaxTokens)})
    /\ call2 = NoCall
    /\ ai = NoAi
NextPatterns == SkipLine \/ ClassifyLine \/ Return
SpecPatterns == InitPatterns /\ [][NextPatterns]_vars

\* inputs with quoted scalars: a value between double quotes, a value that is
\* one double quote, a value opened by ' and closed by "
InitQuotes == InitWith({cScalarQuote, cScalarQuoted, cScalarApos, cHeader, cBlank})
SpecQuotes == InitQuotes /\ [][Next]_vars

\* the same machine on blank lines and comments among objects and a header
InitSkips == InitWith({cObject, cScalar, cHeader, cComment, cBlank})
SpecSkips == InitSkips /\ [][Next]_vars

\* ---------------------------------------------------- call_unified_ai
\* line 227: the flag is assigned nowhere else in the source
AI_QUOTA_EXCEEDED == FALSE
\* lines 168-190: the models, named by their place in the list
FREE_OPENROUTER_MODELS == [n \in 1..MaxModels |-> n]
\* line 1190
the_commander == <<"t", "h", "e", "_", "c", "o", "m", "m", "a", "n", "d", "e", "r">>

cCommander == the_commander \o <<":">>
cFence == <<Tick, Tick, Tick>>
cFenceToon == cFence \o <<"t", "o", "o", "n">>
TextLine(w, c) == [w |-> w, c |-> c]
\* message contents a model answers with
AiTexts ==
    {<<TextLine(0, cCommander), TextLine(1, cScalar)>>,
     <<TextLine(0, cScalar)>>,
     <<TextLine(0, cRow)>>,
     <<TextLine(0, cObject), TextLine(1, cCommander)>>,
     <<TextLine(0, cFence), TextLine(0, cCommander), TextLine(0, cFence)>>,
     <<TextLine(0, cFenceToon), TextLine(0, cCommander), TextLine(1, cScalar), TextLine(1, cFence)>>,
     <<TextLine(0, cCommander), TextLine(0, cFence), TextLine(0, cScalar), TextLine(0, cFence)>>,
     <<TextLine(0, cFence), TextLine(0, cCommander)>>}
\* what requests.post gives for one model: status 0 stands for a raised
\* exception; content is the message content, a text or not (null)
Response(status, choices, istext, t) ==
    [status |-> status, choices |-> choices, content |-> [text |-> istext, lines |-> t]]
AiResponses ==
    {Response(0, FALSE, FALSE, <<>>), Response(429, FALSE, FALSE, <<>>),
     Response(500, FALSE, FALSE, <<>>), Response(200, FALSE, FALSE, <<>>),
     Response(200, TRUE, FALSE, <<>>)}
    \cup {Response(200, TRUE, TRUE, t) : t \in AiTexts}

\* lines 1180-1185: the text between the first two fences, when there are
\* two (fences at the start of a line content)
IsFence(c) == Len(c) >= 3 /\ SubSeq(c, 1, 3) = cFence
AfterFence(c) ==
    LET rest == SubSeq(c, 4, Len(c))
    IN  IF Len(rest) >= 4 /\ SubSeq(rest, 1, 4) = <<"t", "o", "o", "n">>
        THEN SubSeq(rest, 5, Len(rest)) ELSE rest
CleanContentWhole(t) == t
CleanContent(t) ==
    LET fences == {n \in 1..Len(t) : IsFence(t[n].c)}
    IN  IF Cardinality(fences) < 2 THEN t
        ELSE LET f1 == CHOOSE n \in fences : \A m \in fences : n <= m
                 f2 == CHOOSE n \in fences \ {f1} : \A m \in fences \ {f1} : n <= m
             IN  <<TextLine(0, AfterFence(t[f1].c))>> \o SubSeq(t, f1 + 1, f2 - 1)
                    \o <<TextLine(t[f2].w, <<>>)>>
\* line 1190
ValidatesNonEmpty(parsed) == parsed # <<>>
Validates(parsed) == parsed # <<>> /\ HasKey(parsed, the_commander)
\* lines 1172-1210: the response ends the loop with a return
Accepted(r) ==
    /\ r.status = 200 /\ r.choices
    /\ r.content.text
    /\ Validates(ParseToon(CleanContent(r.content.lines)))

\* lines 1006-1023
AiEnter ==
    /\ ai.pc = "entry"
    /\ ai' = IF \/ AI_QUOTA_EXCEEDED \/ ai.env.disable_ai
                \/ ~ai.env.requests_available \/ ~ai.env.openrouter_key
             THEN [ai EXCEPT !.pc = "done", !.returned = ReturnedNone]
             ELSE [ai EXCEPT !.pc = "loop", !.model_index = 1]
    /\ UNCHANGED <<text, csv_rejects_nul, lines, i, pc, dicts, lists, stack, indent_stack,
                   current_array_list, current_array_fields, current_array_indent,
                   result, hist, call2>>
\* lines 1135-1210: one iteration of the loop over the models (the two
\* seconds slept after a 429 change nothing that is kept)
AiTryModel ==
    /\ ai.pc = "loop"
    /\ ai.model_index <= Len(FREE_OPENROUTER_MODELS)
    /\ ~AI_QUOTA_EXCEEDED
    /\ \E r \in AiResponses :
          LET called == [ai EXCEPT !.calls = Append(@, FREE_OPENROUTER_MODELS[ai.model_index]),
                                   !.got = Append(@, r)]
          IN  ai' = IF Accepted(r)
                    THEN [called EXCEPT
                            !.pc = "done",
                            !.returned = [some |-> TRUE,
                                          doc |-> ParseToon(CleanContent(r.content.lines))]]
                    ELSE [called EXCEPT !.model_index = @ + 1]
    /\ UNCHANGED <<text, csv_rejects_nul, lines, i, pc, dicts, lists, stack, indent_stack,
                   current_array_list, current_array_fields, current_array_indent,
                   result, hist, call2>>
\* lines 1136-1137 and 1212-1214
AiAllFailed ==
    /\ ai.pc = "loop"
    /\ ai.model_index > Len(FREE_OPENROUTER_MODELS) \/ AI_QUOTA_EXCEEDED
    /\ ai' = [ai EXCEPT !.pc = "done", !.returned = ReturnedNone]
    /\ UNCHANGED <<text, csv_rejects_nul, lines, i, pc, dicts, lists, stack, indent_stack,
                   current_array_list, current_array_fields, current_array_indent,
                   result, hist, call2>>

\* call_unified_ai at its entry, in any environment; no parse_toon call of
\* its own is running beside it
InitAi ==
    /\ text = <<>>
    /\ csv_rejects_nul = TRUE
    /\ lines = <<>>
    /\ i = 1
    /\ pc = "none"
    /\ dicts = InitLocals.dicts
    /\ lists = InitLocals.lists
    /\ stack = InitLocals.stack
    /\ indent_stack = InitLocals.indent_stack
    /\ current_array_list = InitLocals.current_array_list
    /\ current_array_fields = InitLocals.current_array_fields
    /\ current_array_indent = InitLocals.current_array_indent
    /\ result = <<>>
    /\ hist = <<>>
    /\ call2 = NoCall
    /\ ai \in {[NoAi EXCEPT !.pc = "entry", !.env = e] :
                  e \in [disable_ai : BOOLEAN, requests_available : BOOLEAN,
                         openrouter_key : BOOLEAN]}
NextAi == AiEnter \/ AiTryModel \/ AiAllFailed
SpecAi == InitAi /\ [][NextAi]_vars

\* ---------------------------------------------------- terms of the claims
\* index in text of the line that lines[1] was cut from
FirstKept == IF \A n \in 1..Len(text) : IsBlank(text[n]) THEN 1
             ELSE CHOOSE n \in 1..Len(text) :
                    ~IsBlank(text[n]) /\ \A m \in 1..(n - 1) : IsBlank(text[m])
\* the leading-whitespace width lines[j] has in the input text
Raw(j) == text[FirstKept + j - 1].w

\* the line content matches one of the three patterns
Matches(c) == ArrObjMatch(c).ok \/ ArrSimpleMatch(c).ok \/ KvMatch(c).ok
\* a recognized line: neither blank nor comment, and matching a pattern
Recognized(j) == ~IsSkipped(lines[j]) /\ Matches(lines[j].c)
AtLine == pc = "loop" /\ i <= Len(lines)
Heap == <<dicts, lists>>
Frames == <<stack, indent_stack>>
Context == <<current_array_list, current_array_fields, current_array_indent>>

\* C1: for every input, each line is consumed exactly once and in order, no
\* error reaches the caller, the call terminates (until it returns a step is
\* possible, and every step moves to the next line or returns), and what is
\* returned is the root dict.
Kinds == {"skip", "row", "header", "simple", "object", "scalar", "nomatch"}
C1_Safe ==
    /\ pc \in {"loop", "done"}
    /\ i <= Len(lines) + 1
    /\ Len(hist) = i - 1
    /\ \A j \in 1..Len(hist) : hist[j].n = j
    /\ AtLine => Branch(Cur, lines[i]) \in Kinds
    /\ pc = "done" => i = Len(lines) + 1 /\ result = ResolveDict(dicts, lists, 1)
C1_AlwaysReturns ==
    []C1_Safe /\ [][(i' = i + 1 /\ pc' = "loop") \/ (i' = i /\ pc' = "done")]_vars

C1_Witness ==
    /\ pc = "done"
    /\ Len(lines) = MaxLines
    /\ \E j \in 1..Len(hist) : hist[j].kind = "nomatch"
    /\ \E j \in 1..Len(hist) : hist[j].kind = "row" /\ ~hist[j].appended

\* C10: a line that matches none of the three patterns and is not consumed as
\* a data row leaves every dict and every list as it was.
C10_UnmatchedLineNoMutation ==
    [][(AtLine /\ ~Matches(lines[i].c) /\ Last(hist').kind # "row")
        => UNCHANGED Heap]_vars

\* the last line processed matched no pattern and was classified, while some
\* dict already held an entry
C10_Witness ==
    /\ \E j \in 1..Len(hist) : hist[j].kind = "nomatch" /\ ~Matches(lines[j].c)
    /\ hist # <<>> /\ Last(hist).kind = "nomatch"
    /\ \E d \in 1..Len(dicts) : dicts[d] # <<>>

\* the line about to be processed lies under the open array context: deeper
\* than the header by the width the parser measured, or by the raw widths
HeaderLine(list) == CHOOSE j \in 1..Len(hist) : hist[j].kind = "header" /\ hist[j].made = list
UnderOpenArray ==
    /\ AtLine
    /\ current_array_list # None
    /\ \/ lines[i].w > current_array_indent
       \/ Raw(i) > Raw(HeaderLine(current_array_list))

\* C5 as claimed: every line deeper than the header of the open array context,
\* also one whose content begins with #, is handed to the row decoder.
C5_EveryDeeperLineIsRow ==
    [][UnderOpenArray => Last(hist').kind = "row"]_vars

\* C5 as amended: every such line that is neither blank nor a comment is handed
\* to the row decoder, whatever pattern its content matches.
C5_DeeperLineIsRow ==
    [][(UnderOpenArray /\ ~IsSkipped(lines[i])) => Last(hist').kind = "row"]_vars

\* a line matching a pattern was decoded as a row
C5_Witness ==
    \E j \in 1..Len(hist) : hist[j].kind = "row" /\ Matches(lines[j].c)

\* C6: a data row that decodes to another count than the declared fields, or
\* does not decode, changes nothing: not the target list, the rest of the heap,
\* the frames or the array context; a row of the declared count is appended to
\* the target list, also after dropped rows.
C6_BadRowDropped ==
    [][(AtLine /\ Last(hist').kind = "row") =>
        LET row == CsvRow(lines[i].c)
            target == current_array_list
        IN  IF row = Fault \/ Len(row) # Len(current_array_fields)
            THEN UNCHANGED <<Heap, Frames, Context>>
            ELSE /\ Len(lists'[target]) = Len(lists[target]) + 1
                 /\ SubSeq(lists'[target], 1, Len(lists[target])) = lists[target]
                 /\ \A m \in 1..Len(lists) : m # target => lists'[m] = lists[m]
                 /\ UNCHANGED <<dicts, Frames, Context>>]_vars

\* a row was dropped and a later row of the same block was appended
C6_Witness ==
    \E j, l \in 1..Len(hist) :
        /\ j < l
        /\ hist[j].kind = "row" /\ ~hist[j].appended
        /\ hist[l].kind = "row" /\ hist[l].appended
        /\ hist[j].list = hist[l].list

\* the field list a header line declares: the names between the braces
DeclaredFields(c) ==
    LET open == CHOOSE p \in 1..Len(c) : c[p] = "{" /\ \A q \in 1..(p - 1) : c[q] # "{"
        close == CHOOSE p \in 1..Len(c) : c[p] = "}" /\ \A q \in 1..(p - 1) : c[q] # "}"
        parts == Split(SubSeq(c, open + 1, close - 1), ",")
    IN  [n \in 1..Len(parts) |-> Strip(parts[n])]
Keys(entries) == [n \in 1..Len(entries) |-> entries[n].k]
\* the names of a list without repetitions, in order of first occurrence
RECURSIVE Distinct(_)
Distinct(names) ==
    IF names = <<>> THEN <<>>
    ELSE LET before == Distinct(Front(names))
         IN  IF \E n \in 1..Len(before) : before[n] = Last(names) THEN before
             ELSE Append(before, Last(names))

\* the dicts and lists that the root dict refers to, directly or not
RECURSIVE DictsUnder(_)
DictsUnder(id) ==
    {id} \cup UNION {DictsUnder(dicts[id][n].v.id) :
                        n \in {m \in 1..Len(dicts[id]) : dicts[id][m].v.t = "dict"}}
ListsInDocument ==
    UNION {{dicts[d][n].v.id : n \in {m \in 1..Len(dicts[d]) : dicts[d][m].v.t = "list"}} :
              d \in DictsUnder(1)}

\* C7 as claimed: in the returned document every element of an object array
\* has exactly the header's declared field list as its keys, one per field.
C7_KeysAreDeclaredFields ==
    pc = "done" =>
        \A j \in 1..Len(hist) :
            (hist[j].kind = "header" /\ hist[j].made \in ListsInDocument) =>
                \A n \in 1..Len(lists[hist[j].made]) :
                    Keys(lists[hist[j].made][n].e) = DeclaredFields(lines[j].c)

\* C7 as amended: every element of every object array is a dict of strings
\* whose keys are the distinct declared field names in order of first
\* declaration: the declared list itself when no name is repeated.
C7_KeysAreDistinctDeclaredFields ==
    \A j \in 1..Len(hist) :
        hist[j].kind = "header" =>
            \A n \in 1..Len(lists[hist[j].made]) :
                LET elem == lists[hist[j].made][n]
                IN  /\ elem.t = "obj"
                    /\ Keys(elem.e) = Distinct(DeclaredFields(lines[j].c))
                    /\ \A m \in 1..Len(elem.e) : elem.e[m].v.t = "str"

\* a returned array holds a row under a header that repeats a name
C7_Witness ==
    /\ pc = "done"
    /\ \E j \in 1..Len(hist) :
        /\ hist[j].kind = "header"
        /\ hist[j].made \in ListsInDocument
        /\ lists[hist[j].made] # <<>>
        /\ DeclaredFields(lines[j].c) # Distinct(DeclaredFields(lines[j].c))

Range(q) == {q[n] : n \in 1..Len(q)}
\* between lines j and k every line is blank, a comment, or deeper than line j
BlockRuns(j, k) == \A l \in (j + 1)..(k - 1) : IsSkipped(lines[l]) \/ Raw(l) > Raw(j)

\* C9: widths are the raw leading-whitespace counts of the input, for the
\* first line too: a recognized line that directly follows an object-opening
\* line and has the same width in the input is inserted into the container
\* the object was inserted into, as its sibling.
C9_EqualWidthIsSibling ==
    \A j \in 1..(Len(hist) - 1) :
        (hist[j].kind = "object" /\ Recognized(j + 1) /\ Raw(j + 1) = Raw(j))
            => hist[j + 1].into = hist[j].into

\* C3: after an object opened by a line of width p, no recognized line of
\* width <= p is inserted into that object, and the first such line is inserted
\* into a container that encloses the object.
C3_DedentClosesObject ==
    \A j, k \in 1..Len(hist) :
        (j < k /\ hist[j].kind = "object" /\ Recognized(k) /\ Raw(k) <= Raw(j)) =>
            /\ hist[k].into # hist[j].made
            /\ BlockRuns(j, k) => hist[k].into \in Range(hist[j].stk)

\* C2: after an object-opening line of width p, every pattern line deeper than
\* p, up to the first non-blank line of width <= p, is inserted into the object
\* that line created or into a descendant of it.
C2_DeeperLinesGoIntoObject ==
    \A j, k \in 1..Len(hist) :
        (/\ j < k /\ hist[j].kind = "object" /\ Recognized(k) /\ Raw(k) > Raw(j)
         /\ \A l \in (j + 1)..(k - 1) : IsBlank(lines[l]) \/ Raw(l) > Raw(j)) =>
            /\ hist[k].into # 0
            /\ hist[j].made \in Range(hist[k].stk)

\* C4: once a line that is neither blank nor a comment and is no wider than
\* the header of an object array has been processed, that array's context is
\* closed: no later line is decoded as a row of that array.
C4_ContextClosedByDedent ==
    \A j, l \in 1..Len(hist) :
        (j < l /\ hist[j].kind = "header" /\ ~IsSkipped(lines[l]) /\ Raw(l) <= Raw(j)) =>
            \A k \in (l + 1)..Len(hist) : hist[k].list # hist[j].made

\* the input with the digits of every declared count replaced: the count of
\* each line that was processed as an object-array header or a simple array
WithCount(c, digits) ==
    LET open == CHOOSE p \in 1..Len(c) : c[p] = "[" /\ \A q \in 1..(p - 1) : c[q] # "["
        close == CHOOSE p \in 1..Len(c) : c[p] = "]" /\ \A q \in 1..(p - 1) : c[q] # "]"
    IN  SubSeq(c, 1, open) \o digits \o SubSeq(c, close, Len(c))
Recount(t, digits) ==
    [n \in 1..Len(t) |->
        LET j == n - FirstKept + 1
        IN  IF j \in 1..Len(hist) /\ hist[j].kind \in {"header", "simple"}
            THEN [w |-> t[n].w, c |-> WithCount(t[n].c, digits)]
            ELSE t[n]]

\* the declared count is not read: any other digits give the same document
CountIsAdvisory ==
    pc = "done" => \A digits \in {<<"2">>, <<"7">>, <<"2", "7">>} :
                       ParseToon(Recount(text, digits)) = result

\* C8: the declared count never changes the result, and a returned object
\* array holds one element per accepted row between its header and the first
\* line that is no deeper than the header (or the end of the input).
C8_CountIsAdvisory ==
    /\ CountIsAdvisory
    /\ pc = "done" =>
        \A j \in 1..Len(hist) :
            (hist[j].kind = "header" /\ hist[j].made \in ListsInDocument) =>
                Len(lists[hist[j].made]) =
                    Cardinality({k \in (j + 1)..Len(hist) :
                        /\ BlockRuns(j, k + 1)
                        /\ ~IsSkipped(lines[k])
                        /\ LET row == CsvRow(lines[k].c)
                           IN  row # Fault /\ Len(row) = Len(DeclaredFields(lines[j].c))})

\* C11: an input in which no line matches a pattern (the empty input, blank
\* and comment lines only, lines of other text) never gets an entry into any
\* dict: the parser allocates nothing and returns the empty dict.
NoLineMatches == \A n \in 1..Len(text) : ~Matches(text[n].c)
C11_NoSyntaxGivesEmpty ==
    NoLineMatches =>
        /\ dicts = << <<>> >>
        /\ lists = <<>>
        /\ pc = "done" => result = <<>>

\* returned from a text of a comment, a blank line and a line of no pattern
C11_Witness ==
    /\ pc = "done"
    /\ NoLineMatches
    /\ \E n \in 1..Len(text) : IsBlank(text[n])
    /\ \E j \in 1..Len(hist) : hist[j].kind = "skip" /\ ~IsBlank(lines[j])
    /\ \E j \in 1..Len(hist) : hist[j].kind = "nomatch"

\* the values a remainder lists: cut at the commas outside double quotes,
\* blanks before a value dropped, the quotes themselves removed
RECURSIVE QuotedSplit(_, _, _, _)
QuotedSplit(c, p, quoted, piece) ==
    IF p > Len(c) THEN <<piece>>
    ELSE IF c[p] = Quote THEN QuotedSplit(c, p + 1, ~quoted, piece)
    ELSE IF c[p] = "," /\ ~quoted THEN <<piece>> \o QuotedSplit(c, p + 1, FALSE, <<>>)
    ELSE IF c[p] = " " /\ piece = <<>> /\ ~quoted THEN QuotedSplit(c, p + 1, quoted, piece)
    ELSE QuotedSplit(c, p + 1, quoted, Append(piece, c[p]))
CommaValues(c) == QuotedSplit(c, 1, FALSE, <<>>)
FirstAt(c, ch) == CHOOSE p \in 1..Len(c) : c[p] = ch /\ \A q \in 1..(p - 1) : c[q] # ch
\* the key and the remainder of a simple-array line  key[N]: remainder
SimpleKey(c) == Strip(SubSeq(c, 1, FirstAt(c, "[") - 1))
SimpleRest(c) == Strip(SubSeq(c, FirstAt(c, ":") + 1, Len(c)))
Decodes(c) == ~(csv_rejects_nul /\ \E p \in 1..Len(c) : c[p] = Nul)

\* C12: a line handled as a simple array puts under its key, in the current
\* container, a new list of the comma-separated values of the remainder in
\* order, a double-quoted value with its commas being one element; when the
\* remainder does not decode, the list is empty and nothing is raised.  The
\* list is never changed afterwards.
C12_SimpleArray ==
    /\ pc # "raised"
    /\ \A j \in 1..Len(hist) :
          hist[j].kind = "simple" =>
              LET rest == SimpleRest(lines[j].c)
                  values == CommaValues(rest)
              IN  lists[hist[j].made] =
                      IF Decodes(rest) THEN [n \in 1..Len(values) |-> StrElem(values[n])]
                      ELSE <<>>
    /\ (hist # <<>> /\ Last(hist).kind = "simple") =>
          \E n \in 1..Len(dicts[Last(hist).into]) :
              /\ dicts[Last(hist).into][n].k = SimpleKey(lines[Len(hist)].c)
              /\ dicts[Last(hist).into][n].v = ListRef(Last(hist).made)

\* returned: a list of two values whose second holds a comma, and the empty
\* list of a remainder that did not decode
C12_Witness ==
    /\ pc = "done"
    /\ \E j \in 1..Len(hist) :
          /\ hist[j].kind = "simple"
          /\ hist[j].made \in ListsInDocument
          /\ lists[hist[j].made] = <<StrElem(<<"a">>), StrElem(<<"b", ",", " ", "x">>)>>
    /\ \E j \in 1..Len(hist) :
          /\ hist[j].kind = "simple"
          /\ hist[j].made \in ListsInDocument
          /\ ~Decodes(SimpleRest(lines[j].c))
          /\ lists[hist[j].made] = <<>>

IsStr(chars) == \A p \in 1..Len(chars) : chars[p] \in Chars
\* C13: in every state each value of each dict is a string, a reference to a
\* dict or a reference to a list; each list holds strings only or row dicts
\* only, and every value of a row dict is a string: no number, boolean or
\* None, no list inside a list or inside a row dict.  What is returned is the
\* root dict of that heap.
C13_ValueTypes ==
    /\ \A d \in 1..Len(dicts) : \A n \in 1..Len(dicts[d]) :
          LET v == dicts[d][n].v
          IN  /\ IsStr(dicts[d][n].k)
              /\ \/ v.t = "str" /\ IsStr(v.s)
                 \/ v.t = "dict" /\ v.id \in 1..Len(dicts)
                 \/ v.t = "list" /\ v.id \in 1..Len(lists)
    /\ \A l \in 1..Len(lists) :
          \/ \A n \in 1..Len(lists[l]) : lists[l][n].t = "str" /\ IsStr(lists[l][n].s)
          \/ \A n \in 1..Len(lists[l]) :
                /\ lists[l][n].t = "obj"
                /\ \A m \in 1..Len(lists[l][n].e) :
                      /\ IsStr(lists[l][n].e[m].k)
                      /\ lists[l][n].e[m].v.t = "str"
                      /\ IsStr(lists[l][n].e[m].v.s)
    /\ pc = "done" => result = ResolveDict(dicts, lists, 1)

\* returned: a document holding a list of row dicts and a list of strings
C13_Witness ==
    /\ pc = "done"
    /\ \E l \in ListsInDocument : lists[l] # <<>> /\ lists[l][1].t = "obj"
    /\ \E l \in ListsInDocument : lists[l] # <<>> /\ lists[l][1].t = "str"

\* the value a dict holds under a key, and the key a pattern line names
ValueOf(entries, key) == entries[CHOOSE n \in 1..Len(entries) : entries[n].k = key].v
LineKey(c) == SubSeq(c, 1, Scan(c, 1, WordChars) - 1)
IsPrefix(p, q) == Len(p) <= Len(q) /\ SubSeq(q, 1, Len(p)) = p

\* C14: every step keeps every dict and every list, and in every dict every
\* key; the value under a key changes only in a step that processes a
\* recognized line naming that key and inserting into that dict; a list
\* changes only by one row appended at its end by a row line; the returned
\* document is the root dict of the heap so built.
C14_Monotonic ==
    [][/\ Len(dicts') >= Len(dicts)
       /\ \A d \in 1..Len(dicts) : \A n \in 1..Len(dicts[d]) :
             LET key == dicts[d][n].k
             IN  /\ HasKey(dicts'[d], key)
                 /\ ValueOf(dicts'[d], key) # dicts[d][n].v =>
                       /\ AtLine
                       /\ Recognized(i)
                       /\ LineKey(lines[i].c) = key
                       /\ Last(hist').into = d
       /\ IsPrefix(lists, lists') \/
             \E l \in 1..Len(lists) :
                /\ Last(hist').kind = "row" /\ Last(hist').list = l
                /\ Len(lists'[l]) = Len(lists[l]) + 1
                /\ lists' = [lists EXCEPT ![l] = Append(@, Last(lists'[l]))]
       /\ pc' = "done" => result' = ResolveDict(dicts, lists, 1)]_vars

\* returned after a line named a key again: the dict first stored under the
\* key had got an entry and is still on the heap with it, the key now holds
\* another dict
C14_Witness ==
    /\ pc = "done"
    /\ \E j, l \in 1..Len(hist) :
          /\ j < l
          /\ hist[j].kind = "object" /\ hist[l].kind = "object"
          /\ hist[j].into = hist[l].into
          /\ lines[j].c = lines[l].c
          /\ dicts[hist[j].made] # <<>>
          /\ ValueOf(dicts[hist[l].into], LineKey(lines[l].c)) = DictRef(hist[l].made)

\* C15: with the steps of two invocations interleaved in any order, each
\* returns the document it returns when run alone on its text, and the two
\* return equal documents when their texts are equal.
C15_CallsAreIndependent ==
    /\ pc = "done" => result = ParseToon(text)
    /\ call2.pc = "done" => call2.result = ParseToon(call2.text)
    /\ (pc = "done" /\ call2.pc = "done" /\ call2.text = text) => call2.result = result

\* both returned non-empty documents of different texts, the second having
\* run while the first was in the middle of its loop and held entries
C15_Witness ==
    /\ pc = "done" /\ call2.pc = "done"
    /\ call2.mixed
    /\ call2.text # text
    /\ result # <<>> /\ call2.result # <<>>
    /\ result # call2.result

\* ---- the textual convention, written back from a returned document
RECURSIVE Join(_, _)
Join(pieces, sep) ==
    IF pieces = <<>> THEN <<>>
    ELSE IF Len(pieces) = 1 THEN pieces[1]
    ELSE pieces[1] \o sep \o Join(Tail(pieces), sep)
\* a value between double quotes, its own double quotes doubled
RECURSIVE Doubled(_)
Doubled(v) ==
    IF v = <<>> THEN <<>>
    ELSE (IF Head(v) = Quote THEN <<Quote, Quote>> ELSE <<Head(v)>>) \o Doubled(Tail(v))
Quoted(v) == <<Quote>> \o Doubled(v) \o <<Quote>>
CsvLine(values) == Join([n \in 1..Len(values) |-> Quoted(values[n])], <<",">>)
\* a scalar is written bare, and between single quotes where the bare text
\* would be read as an object opening, trimmed or unquoted
ScalarText(v) ==
    IF \/ v = <<>>
       \/ Head(v) \in SpaceChars \/ Last(v) \in SpaceChars
       \/ Head(v) = Last(v) /\ Head(v) \in {Quote, "'"}
    THEN <<"'">> \o v \o <<"'">>
    ELSE v
Decimal(n) ==
    LET digit == <<"0", "1", "2", "3", "4", "5", "6", "7", "8", "9">>
    IN  IF n < 10 THEN <<digit[n + 1]>> ELSE <<digit[(n \div 10) + 1], digit[(n % 10) + 1]>>
Counted(key, n) == key \o <<"[">> \o Decimal(n) \o <<"]">>

\* the lines of a document at width w: key: value, key: and its entries one
\* deeper, key[N]: values, key[N]{fields}: and its rows one deeper
RECURSIVE EmitDict(_, _)
EmitEntry(en, w) ==
    CASE en.v.t = "str" ->
            << [w |-> w, c |-> en.k \o <<":", " ">> \o ScalarText(en.v.s)] >>
      [] en.v.t = "dict" ->
            << [w |-> w, c |-> en.k \o <<":">>] >> \o EmitDict(en.v.sub, w + 1)
      [] OTHER ->
            LET l == en.v.sub
            IN  IF l # <<>> /\ l[1].t = "str"
                THEN << [w |-> w,
                         c |-> Counted(en.k, Len(l)) \o <<":", " ">>
                                  \o CsvLine([n \in 1..Len(l) |-> l[n].s])] >>
                ELSE LET fields == IF l = <<>> THEN << <<"x">> >> ELSE Keys(l[1].e)
                     IN  << [w |-> w,
                             c |-> Counted(en.k, Len(l)) \o <<"{">> \o Join(fields, <<",">>)
                                      \o <<"}", ":">>] >>
                         \o [n \in 1..Len(l) |->
                               [w |-> w + 1,
                                c |-> CsvLine([m \in 1..Len(l[n].e) |-> l[n].e[m].v.s])]]
EmitDict(entries, w) ==
    IF entries = <<>> THEN <<>>
    ELSE EmitEntry(Head(entries), w) \o EmitDict(Tail(entries), w)
Emit(doc) == IF doc = <<>> THEN << [w |-> 0, c |-> <<>>] >> ELSE EmitDict(doc, 0)

\* ---- the well-formed inputs: blocks by the widths of the input.  The first
\* line has width 0; a line deeper than the object-opening line or header
\* just before it opens that line's block, any other line has the width of
\* an open block and closes the deeper ones; a line of an object block
\* matches a pattern and names a key not yet named in the block; a line of a
\* row block decodes to the declared count; blank and comment lines apart.
OpenerOf(c) ==
    IF ArrObjMatch(c).ok
    THEN [kind |-> "rows", n |-> Len(FieldNames(ArrObjMatch(c).rest))]
    ELSE IF ~ArrSimpleMatch(c).ok /\ KvMatch(c).ok /\ KvMatch(c).rest = <<>>
    THEN [kind |-> "object", n |-> 0]
    ELSE [kind |-> "none", n |-> 0]
RECURSIVE CloseBlocks(_, _)
CloseBlocks(blocks, w) ==
    IF Len(blocks) > 1 /\ w < Last(blocks).w THEN CloseBlocks(Front(blocks), w) ELSE blocks
RECURSIVE WellFormedFrom(_, _, _, _)
WellFormedFrom(t, n, blocks, opener) ==
    IF n > Len(t) THEN TRUE
    ELSE IF IsSkipped(t[n]) THEN WellFormedFrom(t, n + 1, blocks, opener)
    ELSE LET line == t[n]
             open == IF opener.kind # "none" /\ line.w > Last(blocks).w
                     THEN Append(blocks, [w |-> line.w, rows |-> opener.kind = "rows",
                                          keys |-> {}, n |-> opener.n])
                     ELSE CloseBlocks(blocks, line.w)
             top == Last(open)
         IN  /\ line.w = top.w
             /\ \A p \in 1..Len(line.c) : line.c[p] # Nul
             /\ IF top.rows
                THEN /\ Len(CsvRow(line.c)) = top.n
                     /\ WellFormedFrom(t, n + 1, open, [kind |-> "none", n |-> 0])
                ELSE /\ Matches(line.c)
                     /\ LineKey(line.c) \notin top.keys
                     /\ WellFormedFrom(t, n + 1,
                            [open EXCEPT ![Len(open)].keys = @ \cup {LineKey(line.c)}],
                            OpenerOf(line.c))
WellFormed(t) ==
    WellFormedFrom(t, 1, << [w |-> 0, rows |-> FALSE, keys |-> {}, n |-> 0] >>,
                   [kind |-> "none", n |-> 0])

\* C16: the document returned for a well-formed input, written back in the
\* textual convention and parsed again, gives the same document; and what is
\* written back is well-formed itself.
C16_RoundTrip ==
    (pc = "done" /\ WellFormed(text)) =>
        /\ ParseToon(Emit(result)) = result
        /\ WellFormed(Emit(result))

\* returned from a well-formed input: a list with an element followed by a
\* scalar that is the empty string, which is not written back as it was read
C16_Witness ==
    /\ pc = "done"
    /\ WellFormed(text)
    /\ \E n, m \in 1..Len(result) :
          /\ n < m
          /\ result[n].v.t = "list" /\ result[n].v.sub # <<>>
          /\ result[m].v.t = "str" /\ result[m].v.s = <<>>
    /\ Emit(result) # lines

\* the positions of the frames whose indent is below w
Below(w) == {n \in 1..Len(indent_stack) : indent_stack[n] < w}

\* C17: the dedent loop, run for a line of measured width w that is neither
\* blank nor a comment, pops exactly the frames whose indent is >= w: the
\* frames below w are the bottom ones, the root among them, all of them are
\* kept, and the container of the line is the topmost of them; the step
\* pushes at most one frame on top of them.
C17_DedentToNearestBelow ==
    [][(AtLine /\ ~IsSkipped(lines[i])) =>
        LET w == lines[i].w
            k == Cardinality(Below(w))
        IN  /\ k >= 1
            /\ Below(w) = 1..k
            /\ Last(hist').stk = SubSeq(stack, 1, k)
            /\ Last(hist').into \in {0, stack[k]}
            /\ Len(stack') \in {k, k + 1}
            /\ Len(indent_stack') = Len(stack')
            /\ SubSeq(stack', 1, k) = SubSeq(stack, 1, k)
            /\ SubSeq(indent_stack', 1, k) = SubSeq(indent_stack, 1, k)]_vars

\* a line of a width that was never pushed was processed after a deeper
\* object had been opened, and that object's frame is gone
C17_Witness ==
    \E j, l \in 1..Len(hist) :
        /\ j < l
        /\ hist[j].kind = "object" /\ hist[l].kind \notin {"skip", "row"}
        /\ hist[j].w > hist[l].w
        /\ hist[j].made \notin Range(hist[l].stk)
        /\ \A m \in 1..(l - 1) : hist[m].kind = "object" => hist[m].w # hist[l].w

\* C18: when a context is open, a frame is on the stack for the dedent loop
\* to pop and the line's measured width is at or below the context's indent,
\* the loop clears the context: the line is classified, not decoded as a row,
\* and after the step the three fields are reset, or describe the new array
\* when the line is itself an object-array header.
C18_PopClearsContext ==
    [][(/\ AtLine /\ ~IsSkipped(lines[i])
        /\ current_array_list # None
        /\ Len(indent_stack) > 1 /\ lines[i].w <= Last(indent_stack)
        /\ lines[i].w <= current_array_indent) =>
            /\ Last(hist').kind \in {"header", "simple", "object", "scalar", "nomatch"}
            /\ Len(stack') < Len(stack) \/ Last(hist').kind = "object"
            /\ IF Last(hist').kind = "header"
               THEN /\ current_array_list' = Len(lists) + 1
                    /\ current_array_list' # current_array_list
                    /\ current_array_fields' = DeclaredFields(lines[i].c)
                    /\ current_array_indent' = lines[i].w
               ELSE Context' = <<None, <<>>, -1>>]_vars

\* a context was opened, a frame was popped by a line no deeper than the
\* header, and after that line no context is open
C18_Witness ==
    /\ current_array_list = None
    /\ hist # <<>>
    /\ \E j, l \in 1..(Len(hist) - 1) :
          /\ j # l
          /\ hist[j].kind = "header" /\ hist[l].kind = "object"
          /\ Last(hist).w <= hist[j].w /\ Last(hist).w <= hist[l].w
          /\ hist[l].made \notin Range(Last(hist).stk)
          /\ \A m \in (j + 1)..(Len(hist) - 1) :
                hist[m].kind = "object" /\ Len(hist[m].stk) >= Len(hist[j].stk)

\* C19: no line content matches two of the three patterns, so a classified
\* line runs the handler of the one pattern it matches, in whatever order the
\* patterns are tried.
C19_PatternsExclusive ==
    /\ \A n \in 1..Len(lines) :
          LET c == lines[n].c
          IN  /\ ~(ArrObjMatch(c).ok /\ ArrSimpleMatch(c).ok)
              /\ ~(ArrObjMatch(c).ok /\ KvMatch(c).ok)
              /\ ~(ArrSimpleMatch(c).ok /\ KvMatch(c).ok)
    /\ \A j \in 1..Len(hist) :
          hist[j].kind \notin {"skip", "row"} =>
              LET c == lines[j].c
              IN  /\ hist[j].kind = "header" <=> ArrObjMatch(c).ok
                  /\ hist[j].kind = "simple" <=> ArrSimpleMatch(c).ok
                  /\ hist[j].kind \in {"object", "scalar"} <=> KvMatch(c).ok
                  /\ hist[j].kind = "nomatch" <=> ~Matches(c)

\* a line was handled as a simple array whose remainder is the braces and
\* colon of a header
C19_Witness ==
    /\ pc = "done"
    /\ hist[1].kind = "simple"
    /\ \E p \in 1..Len(lines[1].c) : lines[1].c[p] = "{"
    /\ Last(lines[1].c) = ":"

\* the entries inserted so far by lines whose container is the dict made by
\* line j, and whether a later line named line j's key again in its container
NamedIn(j) == {LineKey(lines[l].c) : l \in {m \in (j + 1)..Len(hist) : hist[m].into = hist[j].made}}
NamedAgain(j) ==
    \E l \in (j + 1)..Len(hist) :
        hist[l].into = hist[j].into /\ LineKey(lines[l].c) = LineKey(lines[j].c)

\* the dict an object-opening line made is the one its container holds under
\* the key (until the key is named again) and the one the children went
\* into: it has exactly the keys named by the lines inserted through the
\* frame, none when there were none
C20_ChildrenVisible ==
    /\ \A j \in 1..Len(hist) :
          hist[j].kind = "object" =>
              /\ ~NamedAgain(j) =>
                    ValueOf(dicts[hist[j].into], LineKey(lines[j].c)) = DictRef(hist[j].made)
              /\ {dicts[hist[j].made][n].k : n \in 1..Len(dicts[hist[j].made])} = NamedIn(j)
    /\ pc = "done" => result = ResolveDict(dicts, lists, 1)

\* C20: a classified key-value line with an empty value at measured width w
\* makes a new empty dict, stores it under the key in the container on top
\* of the stack after the dedent loop, and pushes that same dict with indent
\* w as the one new frame; every other line pushes no frame; the stored dict
\* and the frame's dict being one object, the entries of the children are
\* the entries seen through the container, and there are none without
\* children.
C20_ObjectLinePushesFrame ==
    /\ []C20_ChildrenVisible
    /\ [][AtLine =>
            IF Last(hist').kind = "object"
            THEN LET new == Len(dicts) + 1
                     kept == Last(hist').stk
                 IN  /\ Len(dicts') = new
                     /\ dicts'[new] = <<>>
                     /\ Last(hist').into = Last(kept)
                     /\ ValueOf(dicts'[Last(kept)], LineKey(lines[i].c)) = DictRef(new)
                     /\ stack' = Append(kept, new)
                     /\ indent_stack' = Append(SubSeq(indent_stack, 1, Len(kept)), lines[i].w)
            ELSE /\ IsPrefix(stack', stack)
                 /\ IsPrefix(indent_stack', indent_stack)
                 /\ Len(dicts') = Len(dicts)]_vars

\* returned: seen through the root, an object holding the entry of a child
\* line, that entry being an object without children
C20_Witness ==
    /\ pc = "done"
    /\ \E n \in 1..Len(result) :
          /\ result[n].v.t = "dict"
          /\ \E m \in 1..Len(result[n].v.sub) :
                result[n].v.sub[m].v.t = "dict" /\ result[n].v.sub[m].v.sub = <<>>
    /\ \E j \in 1..Len(hist) : hist[j].kind = "object" /\ NamedIn(j) # {}

\* the value of a key-value line: what follows the colon and the blanks
ValueText(c) == LStrip(SubSeq(c, FirstAt(c, ":") + 1, Len(c)))
\* one layer of quotes removed from a value of length >= 2 that begins and
\* ends with the same quote character, any other value as it is
ClaimedScalar(v) ==
    IF Len(v) >= 2 /\ Head(v) = Last(v) /\ Head(v) \in {Quote, "'"}
    THEN SubSeq(v, 2, Len(v) - 1)
    ELSE v

\* C21: the scalar a key-value line with a non-empty value has just inserted
\* is the value without one layer of matching surrounding quotes when it has
\* at least two characters and begins and ends with the same quote character,
\* and the value itself otherwise, also when it is one quote character.
C21_OneLayerOfQuotes ==
    (hist # <<>> /\ Last(hist).kind = "scalar") =>
        ValueOf(dicts[Last(hist).into], LineKey(lines[Len(hist)].c))
            = StrVal(ClaimedScalar(ValueText(lines[Len(hist)].c)))

\* the header lines processed so far, and the last of them before line l
Headers == {j \in 1..Len(hist) : hist[j].kind = "header"}
LastHeader(l) == CHOOSE j \in Headers : j < l /\ \A m \in Headers : m < l => m <= j

\* C22: a line handled as an object-array header makes a new empty list and
\* stores it under its key in the container on top of the stack; the list
\* gets exactly the rows accepted for it, none if there are none.  The one
\* context is closed or is that of the last header processed, whose list it
\* targets with that header's fields and measured width: a header replaces
\* the context that was open, and every row goes to the last header's list.
C22_HeaderOpensTheOneContext ==
    /\ \A j \in Headers :
          /\ hist[j].made \in 1..Len(lists)
          /\ hist[j].into = Last(hist[j].stk)
          /\ ~NamedAgain(j) =>
                ValueOf(dicts[hist[j].into], LineKey(lines[j].c)) = ListRef(hist[j].made)
          /\ Len(lists[hist[j].made]) =
                Cardinality({l \in (j + 1)..Len(hist) :
                                hist[l].list = hist[j].made /\ hist[l].appended})
    /\ \A l \in 1..Len(hist) :
          hist[l].kind = "row" =>
              \E j \in Headers : j < l /\ LastHeader(l) = j /\ hist[l].list = hist[j].made
    /\ (hist # <<>> /\ Last(hist).kind = "header") =>
          /\ current_array_list = Last(hist).made
          /\ lists[Last(hist).made] = <<>>
    /\ IF current_array_list = None
       THEN current_array_fields = <<>> /\ current_array_indent = -1
       ELSE /\ Headers # {}
            /\ LET j == LastHeader(Len(hist) + 1)
               IN  /\ current_array_list = hist[j].made
                   /\ current_array_fields = DeclaredFields(lines[j].c)
                   /\ current_array_indent = lines[j].w

\* returned: a second header was processed while the context of the first
\* was open, and the row after it is in the second header's list
C22_Witness ==
    /\ pc = "done"
    /\ \E j, l \in Headers :
          /\ l = j + 1
          /\ lists[hist[j].made] = <<>>
          /\ lists[hist[l].made] # <<>>
          /\ current_array_list = hist[l].made

\* the lines processed so far, in input order, that inserted into dict d,
\* and those that were appended as rows to list l
Processed == [n \in 1..Len(hist) |-> n]
InsertingLines(d) == SelectSeq(Processed, LAMBDA j : hist[j].into = d)
AppendedLines(l) == SelectSeq(Processed, LAMBDA j : hist[j].list = l /\ hist[j].appended)

\* C23: the lines are processed once each, first to last; the keys of every
\* dict stand in the order of the first line that inserted each of them, a
\* key named again keeping its place; the elements of every object array are
\* the accepted rows of that array in input order, value by value.
C23_InputOrderKept ==
    /\ Len(hist) = i - 1
    /\ \A j \in 1..Len(hist) : hist[j].n = j
    /\ \A d \in 1..Len(dicts) :
          Keys(dicts[d]) =
              Distinct([n \in 1..Len(InsertingLines(d)) |->
                           LineKey(lines[InsertingLines(d)[n]].c)])
    /\ \A j \in Headers :
          LET rows == AppendedLines(hist[j].made)
              elems == lists[hist[j].made]
          IN  /\ Len(elems) = Len(rows)
              /\ \A n \in 1..Len(elems) :
                    [m \in 1..Len(elems[n].e) |-> elems[n].e[m].v.s]
                        = CommaValues(lines[rows[n]].c)

\* returned: a key named again after another key of the same dict had been
\* inserted stands before that key
C23_Witness ==
    /\ pc = "done"
    /\ \E j, l, m \in 1..Len(hist) :
          /\ j < l /\ l < m
          /\ hist[j].into = 1 /\ hist[l].into = 1 /\ hist[m].into = 1
          /\ LineKey(lines[j].c) = LineKey(lines[m].c)
          /\ LineKey(lines[j].c) # LineKey(lines[l].c)
          /\ Keys(dicts[1]) = <<LineKey(lines[j].c), LineKey(lines[l].c)>>

\* C24: the stack is capped whatever the input: of the inputs drawn here,
\* whose deepest chain of successively deeper object-opening lines has one
\* line per width 0..MaxIndent, not every chain is pushed whole, the stack
\* staying below the root frame plus one frame per width.
C24_DepthCapped == Len(stack) <= MaxIndent + 1

\* C25: in every state the stack of dicts and the stack of indents have the
\* same length, at least 1; the bottom frame is the root dict with indent -1;
\* the indents increase strictly from bottom to top; every frame is a dict
\* of the heap.
C25_FrameStack ==
    /\ Len(stack) = Len(indent_stack)
    /\ Len(stack) >= 1
    /\ stack[1] = 1 /\ indent_stack[1] = -1
    /\ \A n, m \in 1..Len(indent_stack) : n < m => indent_stack[n] < indent_stack[m]
    /\ \A n \in 1..Len(stack) : stack[n] \in 1..Len(dicts)

\* an object was opened, a later line popped every frame down to the root
\* and opened another object, whose frame is the only one above the root
C25_Witness ==
    \E j, l \in 1..Len(hist) :
        /\ j < l
        /\ hist[j].kind = "object" /\ hist[l].kind = "object"
        /\ hist[l].stk = <<1>>
        /\ stack = <<1, hist[l].made>>
        /\ indent_stack = <<-1, hist[l].w>>

\* while a context is open no frame is deeper than its header
FramesWithinContext ==
    current_array_list # None =>
        \A n \in 1..Len(indent_stack) : indent_stack[n] <= current_array_indent

\* C26: while an array context is open every frame has an indent at or below
\* the context's; a line decoded as a row is deeper than that, pops no frame,
\* and its step leaves the frames, the context, every dict and every list
\* but the context's target as they were: the target stays or gets one
\* element at its end.
C26_RowLeavesFrames ==
    /\ []FramesWithinContext
    /\ [][(AtLine /\ Last(hist').kind = "row") =>
            /\ lines[i].w > current_array_indent
            /\ Last(hist').stk = stack
            /\ UNCHANGED <<Frames, Context, dicts>>
            /\ Len(lists') = Len(lists)
            /\ \A l \in 1..Len(lists) : l # current_array_list => lists'[l] = lists[l]
            /\ IsPrefix(lists[current_array_list], lists'[current_array_list])
            /\ Len(lists'[current_array_list]) <= Len(lists[current_array_list]) + 1]_vars

\* a row has just been appended while a frame pushed after the header was
\* on the stack
C26_Witness ==
    /\ hist # <<>> /\ Last(hist).kind = "row" /\ Last(hist).appended
    /\ current_array_list # None
    /\ Len(stack) > 1
    /\ \E j, l \in 1..Len(hist) :
          /\ j < l
          /\ hist[j].kind = "header" /\ hist[j].made = current_array_list
          /\ hist[l].kind = "object" /\ hist[l].made = Last(stack)

\* C27: a blank line or a comment line, whatever its width, leaves the frame
\* stack, the array context and every container as they were.
C27_SkippedLineChangesNothing ==
    [][(AtLine /\ IsSkipped(lines[i])) =>
            /\ UNCHANGED <<Heap, Frames, Context>>
            /\ Last(hist').kind = "skip"
            /\ Last(hist').stk = stack]_vars

\* an object was opened, a blank line no deeper than it was skipped, and the
\* deeper line after the blank one went into that object
C27_Witness ==
    \E j, l, m \in 1..Len(hist) :
        /\ l = j + 1 /\ m = l + 1
        /\ hist[j].kind = "object"
        /\ hist[l].kind = "skip" /\ hist[l].w <= hist[j].w /\ IsBlank(lines[l])
        /\ hist[m].kind = "scalar" /\ hist[m].w > hist[j].w
        /\ hist[m].into = hist[j].made
        /\ dicts[hist[j].made] # <<>>

\* C28: a line that is neither blank nor a comment and matches no pattern
\* is dedented like any other: the frames at or above its width are popped
\* and nothing else changes on the stack or in the containers (unless the
\* line is a row); when a frame was popped no array context is left open.
\* A recognized, deeper line right after such a line is then inserted into
\* the container on top of the stack the unmatched line left.
C28_UnmatchedLineDedents ==
    [][/\ (AtLine /\ ~IsSkipped(lines[i]) /\ ~Matches(lines[i].c)) =>
            LET k == Cardinality(Below(lines[i].w))
            IN  /\ stack' = SubSeq(stack, 1, k)
                /\ indent_stack' = SubSeq(indent_stack, 1, k)
                /\ \A n \in 1..Len(indent_stack') : indent_stack'[n] < lines[i].w
                /\ Last(hist').kind \in {"row", "nomatch"}
                /\ Last(hist').kind = "nomatch" => UNCHANGED Heap
                /\ k < Len(stack) =>
                        Last(hist').kind = "nomatch" /\ Context' = <<None, <<>>, -1>>
                /\ k = Len(stack) => UNCHANGED Context
       /\ (/\ AtLine /\ hist # <<>> /\ Last(hist).kind = "nomatch"
           /\ Matches(lines[i].c) /\ lines[i].w > Last(hist).w
           /\ current_array_list = None) =>
            /\ stack = Last(hist).stk
            /\ Last(hist').stk = stack
            /\ Last(hist').into = Last(stack)
            /\ HasKey(dicts'[Last(stack)], LineKey(lines[i].c))]_vars

\* an object was opened, an unmatched line no deeper than it popped its
\* frame, and the deeper scalar after that went into the root, not into
\* the object
C28_Witness ==
    /\ Len(hist) = 3
    /\ hist[1].kind = "object"
    /\ hist[2].kind = "nomatch" /\ hist[2].w <= hist[1].w /\ hist[2].stk = <<1>>
    /\ hist[3].kind = "scalar" /\ hist[3].w > hist[2].w /\ hist[3].into = 1
    /\ dicts[hist[1].made] = <<>>
    /\ HasKey(dicts[1], LineKey(lines[3].c))

\* the last processed line that names the key of line j in j's container
LastNaming(j) ==
    CHOOSE l \in j..Len(hist) :
        /\ hist[l].into = hist[j].into /\ LineKey(lines[l].c) = LineKey(lines[j].c)
        /\ \A m \in (l + 1)..Len(hist) :
              ~(hist[m].into = hist[j].into /\ LineKey(lines[m].c) = LineKey(lines[j].c))
\* the value line j stored under its key
LineValue(j) ==
    CASE hist[j].kind = "object" -> DictRef(hist[j].made)
      [] hist[j].kind \in {"header", "simple"} -> ListRef(hist[j].made)
      [] OTHER -> StrVal(Unquote(ValueText(lines[j].c)))

\* C29: the value under a key is the one stored by the last line that named
\* the key in that container, and the key has one entry; an object or list
\* stored by an earlier line of the same key is referenced from no dict, so
\* it is not in the document; the object of a repeated `key:` line holds
\* only the keys of the lines inserted into it, none when there are none.
C29_LastWriterWins ==
    /\ \A j \in 1..Len(hist) :
          hist[j].into # 0 =>
              LET c == dicts[hist[j].into]
                  key == LineKey(lines[j].c)
              IN  /\ Cardinality({n \in 1..Len(c) : c[n].k = key}) = 1
                  /\ ValueOf(c, key) = LineValue(LastNaming(j))
                  /\ NamedAgain(j) =>
                        \A d \in 1..Len(dicts) : \A n \in 1..Len(dicts[d]) :
                            dicts[d][n].v # LineValue(j) \/ hist[j].kind = "scalar"
                  /\ (NamedAgain(j) /\ hist[j].kind = "object") =>
                        hist[j].made \notin DictsUnder(1)
                  /\ (NamedAgain(j) /\ hist[j].kind \in {"header", "simple"}) =>
                        hist[j].made \notin ListsInDocument
                  /\ hist[j].kind = "object" =>
                        {dicts[hist[j].made][n].k : n \in 1..Len(dicts[hist[j].made])} = NamedIn(j)
    /\ pc = "done" => result = ResolveDict(dicts, lists, 1)

\* returned: `key:` was given a child and then repeated in the same
\* container; the result holds the key with an empty object
C29_Witness ==
    /\ pc = "done"
    /\ \E j, l, m \in 1..Len(hist) :
          /\ j < l /\ l < m
          /\ hist[j].kind = "object" /\ hist[m].kind = "object"
          /\ hist[m].into = hist[j].into
          /\ LineKey(lines[m].c) = LineKey(lines[j].c)
          /\ hist[l].into = hist[j].made
          /\ dicts[hist[j].made] # <<>>
          /\ dicts[hist[m].made] = <<>>
          /\ result = <<[k |-> LineKey(lines[j].c),
                         v |-> [t |-> "dict", s |-> <<>>, sub |-> <<>>]]>>

\* the response of a model parses to a non-empty document with the key
Good(r) ==
    /\ r.status = 200 /\ r.choices /\ r.content.text
    /\ LET doc == ParseToon(CleanContent(r.content.lines))
       IN  doc # <<>> /\ \E n \in 1..Len(doc) : doc[n].k = the_commander
\* the call got past the checks made before the loop
Passed == ai.pc \in {"loop", "done"} /\ ai.model_index >= 1

\* C30: the models are called in list order, one response each; every
\* response before the last one is not good, so no model is called after a
\* good response; at the return, the value is the parsed document of the
\* last response if that one is good, and None, after every model was
\* called, if none is; no bad response is returned.
C30_FirstGoodModelWins ==
    /\ Len(ai.got) = Len(ai.calls)
    /\ ai.calls = SubSeq(FREE_OPENROUTER_MODELS, 1, Len(ai.calls))
    /\ \A n \in 1..(Len(ai.got) - 1) : ~Good(ai.got[n])
    /\ (ai.pc = "loop") =>
          /\ \A n \in 1..Len(ai.got) : ~Good(ai.got[n])
          /\ Len(ai.calls) = ai.model_index - 1
    /\ (ai.pc = "done" /\ Passed) =>
          IF ai.got # <<>> /\ Good(Last(ai.got))
          THEN /\ ai.returned.some
               /\ ai.returned.doc = ParseToon(CleanContent(Last(ai.got).content.lines))
               /\ ai.returned.doc # <<>>
               /\ HasKey(ai.returned.doc, the_commander)
          ELSE /\ ai.returned = ReturnedNone
               /\ Len(ai.calls) = Len(FREE_OPENROUTER_MODELS)
    /\ (ai.pc = "done" /\ ~Passed) => ai.calls = <<>> /\ ai.returned = ReturnedNone

\* returned: the document of the third model, after a response that lacked
\* the key and one that did not parse to anything
C30_Witness ==
    /\ ai.pc = "done"
    /\ ai.calls = <<1, 2, 3>>
    /\ ai.got[1].content.text /\ ParseToon(CleanContent(ai.got[1].content.lines)) # <<>>
    /\ ~Good(ai.got[1])
    /\ ai.got[2].content.text /\ ParseToon(CleanContent(ai.got[2].content.lines)) = <<>>
    /\ ai.returned.some
    /\ ai.returned.doc = ParseToon(Last(ai.got).content.lines)

====
